---- MODULE Spec2Model ----
(***************************************************************************)
(* Model of the thread-safe banking system of                              *)
(* src/src/unit_6/individual_coding.py: BankAccount (a balance in integer  *)
(* cents guarded by a threading.RLock), its operations get_balance,        *)
(* deposit, withdraw and transfer_to, and the threads that call them.      *)
(*                                                                         *)
(* Granularity.  A thread can be preempted between any two bytecodes, so   *)
(* every access to shared state is a step of its own: a lock acquisition,  *)
(* the read of the balance in the funds check, the read and the write of   *)
(* an in-place update (balance += n is a load followed by a store), a lock *)
(* release.  Argument validation touches only locals and is part of the    *)
(* call step.                                                              *)
(***************************************************************************)
EXTENDS Integers, Sequences, FiniteSets, TLC

VARIABLES
    account_number,  \* BankAccount.__account_number, per account
    balance_cents,   \* BankAccount.__balance_cents, per account
    lock_owner,      \* owning thread of BankAccount.__lock (RLock), or None
    lock_count,      \* recursion level of BankAccount.__lock
    initial,         \* history: the balance each account was constructed with
    depSum,          \* history: sum of the amounts of deposit() calls that returned normally
    wdSum,           \* history: sum of the amounts of withdraw() calls that returned normally
    pc,              \* per thread: position inside the current operation
    op,              \* per thread: the current (or last) call and its arguments
    calls,           \* calls issued so far by the threads of the run, all threads together
    opsLeft,         \* per thread: iterations its loop has still to run (range(...))
    pending,         \* per thread: locks the operation has still to enter, in order
    held,            \* per thread: locks entered by the operation's with-blocks, innermost first
    tmp,             \* per thread: value loaded by the read half of an in-place update
    result,          \* per thread: outcome of the current (or last) call
    snap,            \* per thread, history: balances seen when the funds check ran
    fixedAmount,     \* the amount a test's worker function uses in every call
    secondary_account, \* UserTask.__secondary_account of the run's UserTasks, or None
    ctor,            \* the last BankAccount(...) call: its arguments and its outcome
    sim              \* the main thread inside TransactionSimulator.total_balance()

vars == <<account_number, balance_cents, lock_owner, lock_count, initial, depSum,
          wdSum, pc, op, calls, opsLeft, pending, held, tmp, result, snap,
          fixedAmount, secondary_account, ctor, sim>>

acctVars == <<account_number, initial, fixedAmount, secondary_account, ctor, sim>>

----------------------------------------------------------------------------
(* Bounds of the model *)

NumWorkers == 2
MaxCalls == 2
NumRounds == 2
MaxAmount == 1
MaxInit == 1

Workers == 1..NumWorkers
Amounts == 0..MaxAmount
None == "None"
(* an RLock nobody owns *)
NoThread == 0

(* The two accounts the simulator and the tests create. *)
AccountA == "A"
AccountB == "B"
TwoAccounts == {AccountA, AccountB}

(* Further accounts, for runs over more than one pair of accounts. *)
AccountC == "C"
AccountD == "D"
ThreeAccounts == {AccountA, AccountB, AccountC}
FourAccounts == {AccountA, AccountB, AccountC, AccountD}

(* "ACC-001" and "ACC-002" as sequences of code points; "ACC-003" and
   "ACC-004" for the further accounts. *)
AccountNumbers ==
    (AccountA :> <<65, 67, 67, 45, 48, 48, 49>>) @@
    (AccountB :> <<65, 67, 67, 45, 48, 48, 50>>) @@
    (AccountC :> <<65, 67, 67, 45, 48, 48, 51>>) @@
    (AccountD :> <<65, 67, 67, 45, 48, 48, 52>>)

(* the threads of the run *)
Threads == DOMAIN pc

Accounts == DOMAIN balance_cents

NoCall == [kind |-> "none", self |-> None, other |-> None, amount |-> 0]
NoSnap == [src |-> 0, tgt |-> 0]
(* the main thread outside total_balance(): pc its position, account the
   account whose get_balance() it is in, first the value the first
   get_balance() returned, sum the value total_balance() returned; history:
   quiet, whether no call of a worker was in progress when total_balance()
   was called, and the numbers of calls the workers had issued when it was
   called and when it returned *)
NoTotal == [pc |-> "idle", account |-> None, first |-> 0, sum |-> 0,
            quiet |-> FALSE, calls0 |-> 0, calls1 |-> 0]
NoCtor == [account_number |-> <<>>, initial_balance_cents |-> 0, result |-> "none"]

----------------------------------------------------------------------------
(* Pure helpers *)

(* str.__lt__: lexicographic comparison by code point, a proper prefix first. *)
RECURSIVE StrLess(_, _)
StrLess(s, t) ==
    IF t = <<>> THEN FALSE
    ELSE IF s = <<>> THEN TRUE
    ELSE IF Head(s) # Head(t) THEN Head(s) < Head(t)
    ELSE StrLess(Tail(s), Tail(t))

(* Faulty variants of LockOrder: the caller's order, source then target;
   the comparison inverted; the target's lock forgotten. *)
LockOrder_SourceFirst(self, other) == <<self, other>>

LockOrder_Reversed(self, other) ==
    IF StrLess(account_number[self], account_number[other])
    THEN <<other, self>>
    ELSE <<self, other>>

LockOrder_SourceOnly(self, other) == <<self>>

(* Faulty variant of LockOrder: one lock shared by all accounts, account A's,
   entered before the two of the transfer *)
LockOrder_GlobalFirst(self, other) ==
    <<AccountA>> \o (IF StrLess(account_number[self], account_number[other])
                     THEN <<self, other>>
                     ELSE <<other, self>>)

(* first, second = (self, other) if self.account_number < other.account_number
                   else (other, self) *)
LockOrder(self, other) ==
    IF StrLess(account_number[self], account_number[other])
    THEN <<self, other>>
    ELSE <<other, self>>

(* Faulty variant of InvalidAmount: < written for <=, so that 0 passes *)
InvalidAmount_ZeroAccepted(amount) == amount < 0

(* amount_cents <= 0 *)
InvalidAmount(amount) == amount <= 0

(* Faulty variants of Insufficient: the check off by one; the boundary
   amount = balance refused. *)
Insufficient_OffByOne(amount, bal) == amount > bal + 1

Insufficient_Boundary(amount, bal) == amount >= bal

(* amount_cents > self.__balance_cents *)
Insufficient(amount, bal) == amount > bal

(* Faulty variant of deposit_unlocked: = written for += *)
deposit_unlocked_Assign(loaded, amount) == amount

(* self.__balance_cents += amount_cents, the value stored *)
deposit_unlocked(loaded, amount) == loaded + amount

(* Faulty variant of withdraw_unlocked: += written for -= *)
withdraw_unlocked_Plus(loaded, amount) == loaded + amount

(* self.__balance_cents -= amount_cents, the value stored *)
withdraw_unlocked(loaded, amount) == loaded - amount

(* Faulty variant of CanAcquire: a lock that excludes nobody *)
CanAcquire_NoExclusion(w, a) == TRUE

(* RLock.acquire: free, or already owned by the calling thread *)
CanAcquire(w, a) == lock_owner[a] = NoThread \/ lock_owner[a] = w

(* Faulty variant of UnwindPc: acquire() and release() without try/finally,
   so that a raise leaves the call with its locks held *)
UnwindPc_NoRelease(locks) == "returned"

(* where a raise inside the with-blocks goes: the enclosing blocks' exits
   release what is held, then the exception leaves the call *)
UnwindPc(locks) == IF locks = <<>> THEN "returned" ELSE "release"

(* first statement of an operation's body once its with-blocks are entered *)
BodyPc(kind) ==
    CASE kind = "deposit" -> "d_read"
      [] kind = "withdraw" -> "check"
      [] kind = "transfer_to" -> "check"
      [] kind = "get_balance" -> "g_read"

(* Faulty variant of CreditAccount: the credit always goes to account A *)
CreditAccount_Fixed(c) == AccountA

(* the account credited by the operation's __deposit_unlocked *)
CreditAccount(c) == IF c.kind = "transfer_to" THEN c.other ELSE c.self

RECURSIVE SumOver(_, _)
SumOver(f, S) ==
    IF S = {} THEN 0
    ELSE LET a == CHOOSE x \in S : TRUE IN f[a] + SumOver(f, S \ {a})

TotalBalance == SumOver(balance_cents, Accounts)
InitialTotal == SumOver(initial, Accounts)

----------------------------------------------------------------------------
(* Construction *)

(* BankAccount.__init__ for each account of the run, with the simulator's
   account numbers; initial balances that pass the constructor's checks. *)
InitAccounts(accts) ==
    /\ account_number = [a \in accts |-> AccountNumbers[a]]
    /\ initial \in [accts -> {0, MaxInit}]
    /\ balance_cents = initial
    /\ lock_owner = [a \in accts |-> NoThread]
    /\ lock_count = [a \in accts |-> 0]
    /\ depSum = [a \in accts |-> 0]
    /\ wdSum = [a \in accts |-> 0]

InitWorkers(n) ==
    /\ pc = [w \in Workers |-> "idle"]
    /\ op = [w \in Workers |-> NoCall]
    /\ calls = 0
    /\ opsLeft = [w \in Workers |-> n]
    /\ pending = [w \in Workers |-> <<>>]
    /\ held = [w \in Workers |-> <<>>]
    /\ tmp = [w \in Workers |-> 0]
    /\ result = [w \in Workers |-> "none"]
    /\ snap = [w \in Workers |-> NoSnap]

Init ==
    /\ InitAccounts(TwoAccounts)
    /\ InitWorkers(0)
    /\ fixedAmount = 0
    /\ secondary_account = None
    /\ ctor = NoCtor
    /\ sim = NoTotal

----------------------------------------------------------------------------
(* Calls: argument validation, then on to the with-blocks *)

(* a thread between two calls; the run is cut off after MaxCalls calls *)
CanCall(w) == pc[w] = "idle" /\ calls < MaxCalls

(* the call raised ValueError before any lock was requested *)
RaiseValueError(w, c) ==
    /\ pc' = [pc EXCEPT ![w] = UnwindPc(held[w])]
    /\ op' = [op EXCEPT ![w] = c]
    /\ result' = [result EXCEPT ![w] = "ValueError"]
    /\ calls' = calls + 1
    /\ UNCHANGED <<acctVars, balance_cents, lock_owner, lock_count, depSum, wdSum,
                   opsLeft, pending, held, tmp, snap>>

(* the call passed validation and goes on to enter its with-blocks *)
Enter(w, c, locks) ==
    /\ pc' = [pc EXCEPT ![w] = "acquire"]
    /\ op' = [op EXCEPT ![w] = c]
    /\ pending' = [pending EXCEPT ![w] = locks]
    /\ result' = [result EXCEPT ![w] = "pending"]
    /\ calls' = calls + 1
    /\ UNCHANGED <<acctVars, balance_cents, lock_owner, lock_count, depSum, wdSum,
                   opsLeft, held, tmp, snap>>

get_balance(w, a) ==
    Enter(w, [kind |-> "get_balance", self |-> a, other |-> None, amount |-> 0], <<a>>)

deposit(w, a, n) ==
    LET c == [kind |-> "deposit", self |-> a, other |-> None, amount |-> n]
    IN  IF InvalidAmount(n) THEN RaiseValueError(w, c) ELSE Enter(w, c, <<a>>)

withdraw(w, a, n) ==
    LET c == [kind |-> "withdraw", self |-> a, other |-> None, amount |-> n]
    IN  IF InvalidAmount(n) THEN RaiseValueError(w, c) ELSE Enter(w, c, <<a>>)

(* Faulty variant of transfer_to: the "other is self" test left out *)
transfer_to_NoSelfCheck(w, a, b, n) ==
    LET c == [kind |-> "transfer_to", self |-> a, other |-> b, amount |-> n]
    IN  IF b = None \/ InvalidAmount(n)
        THEN RaiseValueError(w, c)
        ELSE Enter(w, c, LockOrder(a, b))

(* if other is None / if other is self / if amount_cents <= 0: raise ValueError *)
transfer_to(w, a, b, n) ==
    LET c == [kind |-> "transfer_to", self |-> a, other |-> b, amount |-> n]
    IN  IF b = None \/ b = a \/ InvalidAmount(n)
        THEN RaiseValueError(w, c)
        ELSE Enter(w, c, LockOrder(a, b))

CallGetBalance(w) ==
    /\ CanCall(w)
    /\ \E a \in Accounts : get_balance(w, a)

CallDeposit(w) ==
    /\ CanCall(w)
    /\ \E a \in Accounts, n \in Amounts : deposit(w, a, n)

CallWithdraw(w) ==
    /\ CanCall(w)
    /\ \E a \in Accounts, n \in Amounts : withdraw(w, a, n)

CallTransfer(w) ==
    /\ CanCall(w)
    /\ \E a \in Accounts, b \in Accounts \cup {None}, n \in Amounts :
          transfer_to(w, a, b, n)

----------------------------------------------------------------------------
(* Steps inside an operation *)

(* with <account>.__lock: entry *)
Acquire(w) ==
    /\ pc[w] = "acquire"
    /\ LET a == Head(pending[w]) IN
        /\ CanAcquire(w, a)
        /\ lock_owner' = [lock_owner EXCEPT ![a] = w]
        /\ lock_count' = [lock_count EXCEPT ![a] = @ + 1]
        /\ held' = [held EXCEPT ![w] = <<a>> \o @]
    /\ pending' = [pending EXCEPT ![w] = Tail(@)]
    /\ pc' = [pc EXCEPT ![w] =
                IF Tail(pending[w]) = <<>> THEN BodyPc(op[w].kind) ELSE "acquire"]
    /\ UNCHANGED <<acctVars, balance_cents, depSum, wdSum, op, calls, opsLeft, tmp,
                   result, snap>>

(* if amount_cents > self.__balance_cents: raise InsufficientFundsError *)
Check(w) ==
    /\ pc[w] = "check"
    /\ snap' = [snap EXCEPT ![w] =
                  [src |-> balance_cents[op[w].self],
                   tgt |-> IF op[w].kind = "transfer_to"
                           THEN balance_cents[op[w].other] ELSE 0]]
    /\ IF Insufficient(op[w].amount, balance_cents[op[w].self])
       THEN /\ result' = [result EXCEPT ![w] = "InsufficientFundsError"]
            /\ pc' = [pc EXCEPT ![w] = UnwindPc(held[w])]
       ELSE /\ pc' = [pc EXCEPT ![w] = "w_read"]
            /\ UNCHANGED result
    /\ UNCHANGED <<acctVars, balance_cents, lock_owner, lock_count, depSum, wdSum,
                   op, calls, opsLeft, pending, held, tmp>>

(* __withdraw_unlocked: load of self.__balance_cents *)
WithdrawRead(w) ==
    /\ pc[w] = "w_read"
    /\ tmp' = [tmp EXCEPT ![w] = balance_cents[op[w].self]]
    /\ pc' = [pc EXCEPT ![w] = "w_write"]
    /\ UNCHANGED <<acctVars, balance_cents, lock_owner, lock_count, depSum, wdSum,
                   op, calls, opsLeft, pending, held, result, snap>>

(* __withdraw_unlocked: store of self.__balance_cents *)
WithdrawWrite(w) ==
    /\ pc[w] = "w_write"
    /\ balance_cents' = [balance_cents EXCEPT
                           ![op[w].self] = withdraw_unlocked(tmp[w], op[w].amount)]
    /\ tmp' = [tmp EXCEPT ![w] = 0]
    /\ IF op[w].kind = "transfer_to"
       THEN /\ pc' = [pc EXCEPT ![w] = "d_read"]
            /\ UNCHANGED result
       ELSE /\ pc' = [pc EXCEPT ![w] = "release"]
            /\ result' = [result EXCEPT ![w] = "ok"]
    /\ UNCHANGED <<acctVars, lock_owner, lock_count, depSum, wdSum, op, calls, opsLeft,
                   pending, held, snap>>

(* __deposit_unlocked: load of the credited account's __balance_cents *)
DepositRead(w) ==
    /\ pc[w] = "d_read"
    /\ tmp' = [tmp EXCEPT ![w] = balance_cents[CreditAccount(op[w])]]
    /\ pc' = [pc EXCEPT ![w] = "d_write"]
    /\ UNCHANGED <<acctVars, balance_cents, lock_owner, lock_count, depSum, wdSum,
                   op, calls, opsLeft, pending, held, result, snap>>

(* __deposit_unlocked: store of the credited account's __balance_cents *)
DepositWrite(w) ==
    /\ pc[w] = "d_write"
    /\ balance_cents' = [balance_cents EXCEPT
                           ![CreditAccount(op[w])] = deposit_unlocked(tmp[w], op[w].amount)]
    /\ tmp' = [tmp EXCEPT ![w] = 0]
    /\ pc' = [pc EXCEPT ![w] = "release"]
    /\ result' = [result EXCEPT ![w] = "ok"]
    /\ UNCHANGED <<acctVars, lock_owner, lock_count, depSum, wdSum, op, calls, opsLeft,
                   pending, held, snap>>

(* get_balance: return self.__balance_cents *)
BalanceRead(w) ==
    /\ pc[w] = "g_read"
    /\ tmp' = [tmp EXCEPT ![w] = balance_cents[op[w].self]]
    /\ pc' = [pc EXCEPT ![w] = "release"]
    /\ result' = [result EXCEPT ![w] = "ok"]
    /\ UNCHANGED <<acctVars, balance_cents, lock_owner, lock_count, depSum, wdSum,
                   op, calls, opsLeft, pending, held, snap>>

(* exit of the innermost with-block still open; after the outermost one the
   call returns (or its exception leaves the call) *)
Release(w) ==
    /\ pc[w] = "release"
    /\ LET a == Head(held[w])
           last == Tail(held[w]) = <<>>
           okay == result[w] = "ok"
       IN
        /\ lock_count' = [lock_count EXCEPT ![a] = @ - 1]
        /\ lock_owner' = [lock_owner EXCEPT ![a] = IF lock_count[a] = 1 THEN NoThread ELSE @]
        /\ held' = [held EXCEPT ![w] = Tail(@)]
        /\ pc' = [pc EXCEPT ![w] = IF last THEN "returned" ELSE "release"]
        /\ depSum' = IF last /\ okay /\ op[w].kind = "deposit"
                     THEN [depSum EXCEPT ![op[w].self] = @ + op[w].amount]
                     ELSE depSum
        /\ wdSum' = IF last /\ okay /\ op[w].kind = "withdraw"
                    THEN [wdSum EXCEPT ![op[w].self] = @ + op[w].amount]
                    ELSE wdSum
        /\ snap' = IF last THEN [snap EXCEPT ![w] = NoSnap] ELSE snap
        /\ tmp' = IF last THEN [tmp EXCEPT ![w] = 0] ELSE tmp
    /\ UNCHANGED <<acctVars, balance_cents, op, calls, opsLeft, pending, result>>

(* UserTask.run after the call: the except clauses swallow
   InsufficientFundsError and ValueError, and the loop goes on to its next
   iteration *)
Continue(w) ==
    /\ pc[w] = "returned"
    /\ pc' = [pc EXCEPT ![w] = "idle"]
    /\ op' = [op EXCEPT ![w] = NoCall]
    /\ result' = [result EXCEPT ![w] = "none"]
    /\ UNCHANGED <<acctVars, balance_cents, lock_owner, lock_count, depSum, wdSum,
                   calls, opsLeft, pending, held, tmp, snap>>

----------------------------------------------------------------------------
(* Threads issuing any operation on either account *)

Next ==
    \E w \in Workers :
        \/ CallGetBalance(w)
        \/ CallDeposit(w)
        \/ CallWithdraw(w)
        \/ CallTransfer(w)
        \/ Acquire(w)
        \/ Check(w)
        \/ WithdrawRead(w)
        \/ WithdrawWrite(w)
        \/ DepositRead(w)
        \/ DepositWrite(w)
        \/ BalanceRead(w)
        \/ Release(w)
        \/ Continue(w)

Spec == Init /\ [][Next]_vars

(* no call is in progress: every thread is between two calls *)
Quiescent == \A w \in Workers : pc[w] \in {"idle", "returned"}

(* the run's calls are all issued and all returned *)
AllDone == Quiescent /\ calls = MaxCalls

HoldsLock(w, a) == lock_owner[a] = w

----------------------------------------------------------------------------
(* Threads issuing only transfers, in either direction, as the workers of
   test_transfers_preserve_total_balance and test_deadlock_free_transfers do *)

TransferWorker(w) ==
    \/ CallTransfer(w)
    \/ Acquire(w)
    \/ Check(w)
    \/ WithdrawRead(w)
    \/ WithdrawWrite(w)
    \/ DepositRead(w)
    \/ DepositWrite(w)
    \/ Release(w)
    \/ Continue(w)

TransferNext == \E w \in Workers : TransferWorker(w)

(* A started thread that can run is eventually run. *)
TransferSpec ==
    Init /\ [][TransferNext]_vars /\ \A w \in Workers : WF_vars(TransferWorker(w))

----------------------------------------------------------------------------
(* Threads issuing only deposits and withdrawals *)

DepWdNext ==
    \E w \in Workers :
        \/ CallDeposit(w)
        \/ CallWithdraw(w)
        \/ Acquire(w)
        \/ Check(w)
        \/ WithdrawRead(w)
        \/ WithdrawWrite(w)
        \/ DepositRead(w)
        \/ DepositWrite(w)
        \/ Release(w)
        \/ Continue(w)

DepWdSpec == Init /\ [][DepWdNext]_vars

----------------------------------------------------------------------------
(* test_concurrent_deposit_and_withdraw: one account, every thread runs
   for _ in range(...): acc.deposit(d); acc.withdraw(d) *)

InitNoOp ==
    /\ InitAccounts({AccountA})
    /\ InitWorkers(2 * NumRounds)
    /\ fixedAmount \in 1..MaxAmount
    /\ secondary_account = None
    /\ ctor = NoCtor
    /\ sim = NoTotal

(* the next statement of the loop body: deposit first, then withdraw *)
NoOpCall(w) ==
    /\ pc[w] = "idle"
    /\ opsLeft[w] > 0
    /\ IF opsLeft[w] % 2 = 0
       THEN deposit(w, AccountA, fixedAmount)
       ELSE withdraw(w, AccountA, fixedAmount)

(* the worker function catches nothing: an exception ends the thread *)
NoOpContinue(w) ==
    /\ pc[w] = "returned"
    /\ pc' = [pc EXCEPT ![w] = "idle"]
    /\ opsLeft' = [opsLeft EXCEPT ![w] = IF result[w] = "ok" THEN @ - 1 ELSE 0]
    /\ op' = [op EXCEPT ![w] = NoCall]
    /\ UNCHANGED <<acctVars, balance_cents, lock_owner, lock_count, depSum, wdSum,
                   calls, pending, held, tmp, result, snap>>

NoOpNext ==
    \E w \in Workers :
        \/ NoOpCall(w)
        \/ Acquire(w)
        \/ Check(w)
        \/ WithdrawRead(w)
        \/ WithdrawWrite(w)
        \/ DepositRead(w)
        \/ DepositWrite(w)
        \/ Release(w)
        \/ NoOpContinue(w)

NoOpSpec == InitNoOp /\ [][NoOpNext]_vars

(* every thread has run its loop to the end, or died *)
AllFinished == \A w \in Workers : pc[w] = "idle" /\ opsLeft[w] = 0

----------------------------------------------------------------------------
(* test_deadlock_free_transfers and test_transfers_preserve_total_balance:
   every thread runs
       for _ in range(...):
           try: acc_a.transfer_to(acc_b, d); acc_b.transfer_to(acc_a, d)
           except InsufficientFundsError: pass *)

InitPingPong ==
    /\ InitAccounts(TwoAccounts)
    /\ InitWorkers(2 * NumRounds)
    /\ fixedAmount \in 1..MaxAmount
    /\ secondary_account = None
    /\ ctor = NoCtor
    /\ sim = NoTotal

(* the next statement of the try body: A to B first, then B to A *)
PingPongCall(w) ==
    /\ pc[w] = "idle"
    /\ opsLeft[w] > 0
    /\ IF opsLeft[w] % 2 = 0
       THEN transfer_to(w, AccountA, AccountB, fixedAmount)
       ELSE transfer_to(w, AccountB, AccountA, fixedAmount)

(* statements of the iteration that an outcome leaves unexecuted: an
   InsufficientFundsError leaves the try body, skipping what follows in it *)
PingPongSkipped(res, left) ==
    IF res = "InsufficientFundsError" /\ left % 2 = 0 THEN 1 ELSE 0

(* after a call: on to the next statement, or to the except clause and the
   next iteration *)
PingPongContinue(w) ==
    /\ pc[w] = "returned"
    /\ pc' = [pc EXCEPT ![w] = "idle"]
    /\ opsLeft' = [opsLeft EXCEPT ![w] = @ - 1 - PingPongSkipped(result[w], @)]
    /\ op' = [op EXCEPT ![w] = NoCall]
    /\ result' = [result EXCEPT ![w] = "none"]
    /\ UNCHANGED <<acctVars, balance_cents, lock_owner, lock_count, depSum, wdSum,
                   calls, pending, held, tmp, snap>>

PingPongWorker(w) ==
    \/ PingPongCall(w)
    \/ Acquire(w)
    \/ Check(w)
    \/ WithdrawRead(w)
    \/ WithdrawWrite(w)
    \/ DepositRead(w)
    \/ DepositWrite(w)
    \/ Release(w)
    \/ PingPongContinue(w)

PingPongNext == \E w \in Workers : PingPongWorker(w)

(* A started thread that can run is eventually run. *)
PingPongSpec ==
    InitPingPong /\ [][PingPongNext]_vars
        /\ \A w \in Workers : WF_vars(PingPongWorker(w))

----------------------------------------------------------------------------
(* TransactionSimulator.run: UserTask threads bound to account A as primary
   account and to one secondary account, each running UserTask.run for its
   configured number of iterations *)

(* operations per UserTask: any split of the run's MaxCalls iterations
   among the threads *)
OperationsPerUser ==
    {f \in [Workers -> 0..MaxCalls] : SumOver(f, Workers) = MaxCalls}

InitUserTasks ==
    /\ InitAccounts(TwoAccounts)
    /\ pc = [w \in Workers |-> "idle"]
    /\ op = [w \in Workers |-> NoCall]
    /\ calls = 0
    /\ opsLeft \in OperationsPerUser
    /\ pending = [w \in Workers |-> <<>>]
    /\ held = [w \in Workers |-> <<>>]
    /\ tmp = [w \in Workers |-> 0]
    /\ result = [w \in Workers |-> "none"]
    /\ snap = [w \in Workers |-> NoSnap]
    /\ fixedAmount = 0
    /\ secondary_account \in {AccountB, AccountA, None}
    /\ ctor = NoCtor
    /\ sim = NoTotal

(* amount_cents = random.randint(100, 10_000): always positive *)
UserAmounts == 1..MaxAmount

CanIterate(w) == pc[w] = "idle" /\ opsLeft[w] > 0

(* action == "deposit" *)
UserDeposit(w) ==
    /\ CanIterate(w)
    /\ \E n \in UserAmounts : deposit(w, AccountA, n)

(* action == "withdraw" *)
UserWithdraw(w) ==
    /\ CanIterate(w)
    /\ \E n \in UserAmounts : withdraw(w, AccountA, n)

(* action == "transfer" and a secondary account is bound: random direction *)
UserTransfer(w) ==
    /\ CanIterate(w)
    /\ secondary_account # None
    /\ \E n \in UserAmounts, forward \in BOOLEAN :
          IF forward
          THEN transfer_to(w, AccountA, secondary_account, n)
          ELSE transfer_to(w, secondary_account, AccountA, n)

(* action == "transfer" with no secondary account: the iteration calls nothing *)
UserSkip(w) ==
    /\ CanIterate(w)
    /\ secondary_account = None
    /\ pc' = [pc EXCEPT ![w] = "returned"]
    /\ UNCHANGED <<acctVars, balance_cents, lock_owner, lock_count, depSum, wdSum,
                   op, calls, opsLeft, pending, held, tmp, result, snap>>

(* Faulty variant of IterationsAfter: no except clause for
   InsufficientFundsError, which then ends the thread *)
IterationsAfter_Uncaught(res, left) ==
    IF res = "InsufficientFundsError" THEN 0 ELSE left - 1

(* iterations left after one whose call ended with res: the except clauses
   catch InsufficientFundsError and ValueError, and the loop goes on *)
IterationsAfter(res, left) == left - 1

(* end of an iteration: except ...: pass, time.sleep, next iteration *)
UserContinue(w) ==
    /\ pc[w] = "returned"
    /\ pc' = [pc EXCEPT ![w] = "idle"]
    /\ opsLeft' = [opsLeft EXCEPT ![w] = IterationsAfter(result[w], @)]
    /\ op' = [op EXCEPT ![w] = NoCall]
    /\ result' = [result EXCEPT ![w] = "none"]
    /\ UNCHANGED <<acctVars, balance_cents, lock_owner, lock_count, depSum, wdSum,
                   calls, pending, held, tmp, snap>>

UserTask(w) ==
    \/ UserDeposit(w)
    \/ UserWithdraw(w)
    \/ UserTransfer(w)
    \/ UserSkip(w)
    \/ Acquire(w)
    \/ Check(w)
    \/ WithdrawRead(w)
    \/ WithdrawWrite(w)
    \/ DepositRead(w)
    \/ DepositWrite(w)
    \/ Release(w)
    \/ UserContinue(w)

UserTaskNext == \E w \in Workers : UserTask(w)

(* A started thread that can run is eventually run. *)
UserTaskSpec ==
    InitUserTasks /\ [][UserTaskNext]_vars /\ \A w \in Workers : WF_vars(UserTask(w))

----------------------------------------------------------------------------
(* Two distinct accounts constructed with the same account number: the
   constructor checks nothing but the number's being non-blank *)

InitEqualIds ==
    /\ account_number = [a \in TwoAccounts |-> AccountNumbers[AccountA]]
    /\ initial \in [TwoAccounts -> {0, MaxInit}]
    /\ balance_cents = initial
    /\ lock_owner = [a \in TwoAccounts |-> NoThread]
    /\ lock_count = [a \in TwoAccounts |-> 0]
    /\ depSum = [a \in TwoAccounts |-> 0]
    /\ wdSum = [a \in TwoAccounts |-> 0]
    /\ InitWorkers(0)
    /\ fixedAmount = 0
    /\ secondary_account = None
    /\ ctor = NoCtor
    /\ sim = NoTotal

(* threads transferring in both directions between the two *)
EqualIdsSpec == InitEqualIds /\ [][TransferNext]_vars

----------------------------------------------------------------------------
(* BankAccount.__init__, called with any account number and any initial
   balance *)

MaxLen == 2

(* whitespace as str.strip() sees it: tab, line feed, vertical tab, form
   feed, carriage return, the separators 28..31, space, next line,
   no-break space *)
Whitespace == {9, 10, 11, 12, 13, 28, 29, 30, 31, 32, 133, 160}

(* the code points account numbers are drawn from: space, tab and "A" *)
IdChars == {32, 9, 65}

RECURSIVE SeqsUpTo(_, _)
SeqsUpTo(S, n) ==
    IF n = 0 THEN {<<>>}
    ELSE LET shorter == SeqsUpTo(S, n - 1)
         IN  shorter \cup {<<c>> \o s : c \in S, s \in {t \in shorter : Len(t) = n - 1}}

NumberInputs == SeqsUpTo(IdChars, MaxLen)
BalanceInputs == (0 - 1)..MaxInit

RECURSIVE LStrip(_)
LStrip(s) ==
    IF s # <<>> /\ Head(s) \in Whitespace THEN LStrip(Tail(s)) ELSE s

RECURSIVE RStrip(_)
RStrip(s) ==
    IF s # <<>> /\ s[Len(s)] \in Whitespace THEN RStrip(SubSeq(s, 1, Len(s) - 1)) ELSE s

(* str.strip(): leading and trailing whitespace removed *)
Strip(s) == RStrip(LStrip(s))

(* Faulty variant of InvalidNumber: the strip() test left out *)
InvalidNumber_NoStrip(number) == number = <<>>

(* not account_number or not account_number.strip() *)
InvalidNumber(number) == number = <<>> \/ Strip(number) = <<>>

(* Faulty variant of InvalidBalance: <= written for < *)
InvalidBalance_ZeroRefused(cents) == cents <= 0

(* initial_balance_cents < 0 *)
InvalidBalance(cents) == cents < 0

(* the function f with the value v added at a *)
With(f, a, v) == [x \in DOMAIN f \cup {a} |-> IF x = a THEN v ELSE f[x]]

(* BankAccount(number, cents), the object a being the one it would create *)
BankAccount(a, number, cents) ==
    IF InvalidNumber(number) \/ InvalidBalance(cents)
    THEN /\ ctor' = [account_number |-> number, initial_balance_cents |-> cents,
                     result |-> "ValueError"]
         /\ UNCHANGED <<account_number, balance_cents, lock_owner, lock_count,
                        initial, depSum, wdSum>>
    ELSE /\ ctor' = [account_number |-> number, initial_balance_cents |-> cents,
                     result |-> a]
         /\ account_number' = With(account_number, a, number)
         /\ balance_cents' = With(balance_cents, a, cents)
         /\ lock_owner' = With(lock_owner, a, NoThread)
         /\ lock_count' = With(lock_count, a, 0)
         /\ initial' = With(initial, a, cents)
         /\ depSum' = With(depSum, a, 0)
         /\ wdSum' = With(wdSum, a, 0)

InitNoAccounts ==
    /\ account_number = <<>>
    /\ balance_cents = <<>>
    /\ lock_owner = <<>>
    /\ lock_count = <<>>
    /\ initial = <<>>
    /\ depSum = <<>>
    /\ wdSum = <<>>
    /\ InitWorkers(0)
    /\ fixedAmount = 0
    /\ secondary_account = None
    /\ ctor = NoCtor
    /\ sim = NoTotal

Construct ==
    /\ \E a \in TwoAccounts \ Accounts, number \in NumberInputs, cents \in BalanceInputs :
          BankAccount(a, number, cents)
    /\ UNCHANGED <<pc, op, calls, opsLeft, pending, held, tmp, result, snap,
                   fixedAmount, secondary_account, sim>>

ConstructSpec == InitNoAccounts /\ [][Construct]_vars

----------------------------------------------------------------------------
(* Two threads each debiting account A once, by withdraw or as the source of
   a transfer_to to account B; nothing credits A *)

(* which threads debit: any two of them *)
Debitors == {f \in [Workers -> {0, 1}] : SumOver(f, Workers) = 2}

InitDebits ==
    /\ InitAccounts(TwoAccounts)
    /\ pc = [w \in Workers |-> "idle"]
    /\ op = [w \in Workers |-> NoCall]
    /\ calls = 0
    /\ opsLeft \in Debitors
    /\ pending = [w \in Workers |-> <<>>]
    /\ held = [w \in Workers |-> <<>>]
    /\ tmp = [w \in Workers |-> 0]
    /\ result = [w \in Workers |-> "none"]
    /\ snap = [w \in Workers |-> NoSnap]
    /\ fixedAmount = 0
    /\ secondary_account = None
    /\ ctor = NoCtor
    /\ sim = NoTotal

DebitCall(w) ==
    /\ pc[w] = "idle"
    /\ opsLeft[w] > 0
    /\ \E n \in 1..MaxAmount :
          \/ withdraw(w, AccountA, n)
          \/ transfer_to(w, AccountA, AccountB, n)

DebitNext ==
    \E w \in Workers :
        \/ DebitCall(w)
        \/ Acquire(w)
        \/ Check(w)
        \/ WithdrawRead(w)
        \/ WithdrawWrite(w)
        \/ DepositRead(w)
        \/ DepositWrite(w)
        \/ Release(w)

DebitSpec == InitDebits /\ [][DebitNext]_vars

----------------------------------------------------------------------------
(* Three accounts and one thread per account, bound to it as primary account
   and to the next account round the cycle as secondary account: the thread
   in its one iteration transfers from its primary to its secondary account
   (A to B, B to C, C to A), or deposits to, withdraws from or reads its
   primary account *)

CycleThreads == 1..Cardinality(ThreeAccounts)

primary_account == (1 :> AccountA) @@ (2 :> AccountB) @@ (3 :> AccountC)

NextInCycle == (AccountA :> AccountB) @@ (AccountB :> AccountC) @@ (AccountC :> AccountA)

InitCycle ==
    /\ InitAccounts(ThreeAccounts)
    /\ pc = [w \in CycleThreads |-> "idle"]
    /\ op = [w \in CycleThreads |-> NoCall]
    /\ calls = 0
    /\ opsLeft = [w \in CycleThreads |-> 1]
    /\ pending = [w \in CycleThreads |-> <<>>]
    /\ held = [w \in CycleThreads |-> <<>>]
    /\ tmp = [w \in CycleThreads |-> 0]
    /\ result = [w \in CycleThreads |-> "none"]
    /\ snap = [w \in CycleThreads |-> NoSnap]
    /\ fixedAmount = 0
    /\ secondary_account = None
    /\ ctor = NoCtor
    /\ sim = NoTotal

CycleTransfer(w) ==
    /\ CanIterate(w)
    /\ \E n \in UserAmounts :
          transfer_to(w, primary_account[w], NextInCycle[primary_account[w]], n)

CycleDeposit(w) ==
    /\ CanIterate(w)
    /\ \E n \in UserAmounts : deposit(w, primary_account[w], n)

CycleWithdraw(w) ==
    /\ CanIterate(w)
    /\ \E n \in UserAmounts : withdraw(w, primary_account[w], n)

CycleGetBalance(w) ==
    /\ CanIterate(w)
    /\ get_balance(w, primary_account[w])

CycleNext ==
    \E w \in CycleThreads :
        \/ CycleTransfer(w)
        \/ CycleDeposit(w)
        \/ CycleWithdraw(w)
        \/ CycleGetBalance(w)
        \/ Acquire(w)
        \/ Check(w)
        \/ WithdrawRead(w)
        \/ WithdrawWrite(w)
        \/ DepositRead(w)
        \/ DepositWrite(w)
        \/ BalanceRead(w)
        \/ Release(w)
        \/ UserContinue(w)

CycleSpec == InitCycle /\ [][CycleNext]_vars

----------------------------------------------------------------------------
(* Four accounts in two pairs, A with B and C with D: threads transferring
   within a pair, in either direction, and depositing to and withdrawing
   from any account *)

PairOf ==
    (AccountA :> AccountB) @@ (AccountB :> AccountA) @@
    (AccountC :> AccountD) @@ (AccountD :> AccountC)

(* every account constructed with the same initial balance, as the
   simulator's two are *)
InitPairs ==
    /\ account_number = [a \in FourAccounts |-> AccountNumbers[a]]
    /\ initial = [a \in FourAccounts |-> MaxInit]
    /\ balance_cents = initial
    /\ lock_owner = [a \in FourAccounts |-> NoThread]
    /\ lock_count = [a \in FourAccounts |-> 0]
    /\ depSum = [a \in FourAccounts |-> 0]
    /\ wdSum = [a \in FourAccounts |-> 0]
    /\ InitWorkers(0)
    /\ fixedAmount = 0
    /\ secondary_account = None
    /\ ctor = NoCtor
    /\ sim = NoTotal

PairTransfer(w) ==
    /\ CanCall(w)
    /\ \E a \in Accounts, n \in UserAmounts : transfer_to(w, a, PairOf[a], n)

PairDeposit(w) ==
    /\ CanCall(w)
    /\ \E a \in Accounts, n \in UserAmounts : deposit(w, a, n)

PairWithdraw(w) ==
    /\ CanCall(w)
    /\ \E a \in Accounts, n \in UserAmounts : withdraw(w, a, n)

PairWorker(w) ==
    \/ PairTransfer(w)
    \/ PairDeposit(w)
    \/ PairWithdraw(w)
    \/ Acquire(w)
    \/ Check(w)
    \/ WithdrawRead(w)
    \/ WithdrawWrite(w)
    \/ DepositRead(w)
    \/ DepositWrite(w)
    \/ Release(w)
    \/ Continue(w)

PairsNext == \E w \in Workers : PairWorker(w)

PairsSpec == InitPairs /\ [][PairsNext]_vars

----------------------------------------------------------------------------
(* TransactionSimulator.total_balance(), called by the main thread at any
   moment of a run whose threads transfer between the two accounts in both
   directions *)

(* the main thread, as an owner of locks *)
MainThread == NumWorkers + 1

(* Faulty variant of total_balance: the first account read twice *)
total_balance_Twice(a, b) == a + a

(* self.__account_a.get_balance() + self.__account_b.get_balance() *)
total_balance(a, b) == a + b

workerVars == <<pc, op, calls, opsLeft, pending, held, tmp, result, snap>>

(* the call: on to the first get_balance(), account A's *)
TotalCall ==
    /\ sim.pc = "idle"
    /\ sim' = [sim EXCEPT !.pc = "acquire", !.account = AccountA,
                          !.quiet = Quiescent, !.calls0 = calls]
    /\ UNCHANGED <<account_number, initial, fixedAmount, secondary_account, ctor,
                   balance_cents, lock_owner, lock_count, depSum, wdSum, workerVars>>

(* get_balance: with self.__lock, entry *)
TotalAcquire ==
    /\ sim.pc = "acquire"
    /\ CanAcquire(MainThread, sim.account)
    /\ lock_owner' = [lock_owner EXCEPT ![sim.account] = MainThread]
    /\ lock_count' = [lock_count EXCEPT ![sim.account] = @ + 1]
    /\ sim' = [sim EXCEPT !.pc = "g_read"]
    /\ UNCHANGED <<account_number, initial, fixedAmount, secondary_account, ctor,
                   balance_cents, depSum, wdSum, workerVars>>

(* get_balance: return self.__balance_cents; the second value is added to
   the first *)
TotalRead ==
    /\ sim.pc = "g_read"
    /\ sim' = IF sim.account = AccountA
              THEN [sim EXCEPT !.pc = "release", !.first = balance_cents[AccountA]]
              ELSE [sim EXCEPT !.pc = "release",
                               !.sum = total_balance(sim.first, balance_cents[AccountB])]
    /\ UNCHANGED <<account_number, initial, fixedAmount, secondary_account, ctor,
                   balance_cents, lock_owner, lock_count, depSum, wdSum, workerVars>>

(* get_balance: exit of the with-block; then the second get_balance(), or
   the return of total_balance() *)
TotalRelease ==
    /\ sim.pc = "release"
    /\ lock_count' = [lock_count EXCEPT ![sim.account] = @ - 1]
    /\ lock_owner' = [lock_owner EXCEPT ![sim.account] =
                        IF lock_count[sim.account] = 1 THEN NoThread ELSE @]
    /\ sim' = IF sim.account = AccountA
              THEN [sim EXCEPT !.pc = "acquire", !.account = AccountB]
              ELSE [sim EXCEPT !.pc = "returned", !.account = None, !.calls1 = calls]
    /\ UNCHANGED <<account_number, initial, fixedAmount, secondary_account, ctor,
                   balance_cents, depSum, wdSum, workerVars>>

(* the workers: positive amounts, either direction *)
TotalTransfer(w) ==
    /\ CanCall(w)
    /\ \E a \in Accounts, n \in UserAmounts : transfer_to(w, a, PairOf[a], n)

TotalNext ==
    \/ TotalCall
    \/ TotalAcquire
    \/ TotalRead
    \/ TotalRelease
    \/ \E w \in Workers :
          \/ TotalTransfer(w)
          \/ Acquire(w)
          \/ Check(w)
          \/ WithdrawRead(w)
          \/ WithdrawWrite(w)
          \/ DepositRead(w)
          \/ DepositWrite(w)
          \/ Release(w)
          \/ Continue(w)

TotalSpec == Init /\ [][TotalNext]_vars

----------------------------------------------------------------------------
(* Properties *)

(* w waits in a with-entry for a lock another thread owns *)
Blocked(w) == pc[w] = "acquire" /\ ~CanAcquire(w, Head(pending[w]))

(* a set of threads each of which waits for a lock owned by a thread of the
   set: none of them can ever run again *)
WaitCycle ==
    \E S \in SUBSET Workers :
        /\ S # {}
        /\ \A w \in S : Blocked(w) /\ lock_owner[Head(pending[w])] \in S

(* w's transfer has debited its source and not yet credited its target *)
MidTransfer(w) == op[w].kind = "transfer_to" /\ pc[w] \in {"d_read", "d_write"}

(* the next step of u reads or writes the balance of account a *)
Accessing(u, a) ==
    \/ pc[u] \in {"check", "w_read", "w_write", "g_read"} /\ op[u].self = a
    \/ pc[u] \in {"d_read", "d_write"} /\ CreditAccount(op[u]) = a

(* C1: with distinct account numbers and threads transferring in both
   directions, no reachable state holds threads that wait for each other's
   locks, and under fair scheduling every call issued returns and the run
   completes. *)
C1_DeadlockFree == [](~WaitCycle) /\ <>AllDone

(* contention between opposite transfers: one thread waits for the lock the
   other, transferring the other way, holds *)
C1_Witness ==
    \E w, u \in Workers :
        /\ w # u
        /\ op[w].kind = "transfer_to" /\ op[u].kind = "transfer_to"
        /\ op[w].self = op[u].other /\ op[w].other = op[u].self
        /\ Blocked(u)
        /\ HoldsLock(w, Head(pending[u]))

(* C2: when the threads issue only transfer_to calls, whenever no call is in
   progress (in particular once all threads have finished) the sum of the
   two balances equals the sum of the initial balances, whatever amounts
   were attempted and whether or not a transfer was refused. *)
C2_Conservation == Quiescent => TotalBalance = InitialTotal

(* all calls returned, money has moved, and the last call was refused for
   insufficient funds *)
C2_Witness ==
    /\ AllDone
    /\ balance_cents # initial
    /\ \E w \in Workers : pc[w] = "returned" /\ result[w] = "InsufficientFundsError"

(* C3: under any interleaving of deposit, withdraw, transfer_to and
   get_balance calls, an account whose lock is free has a balance >= 0. *)
C3_NonNegative ==
    \A a \in Accounts : lock_owner[a] = NoThread => balance_cents[a] >= 0

(* a debit that emptied its account has returned and the lock is free *)
C3_Witness ==
    \E w \in Workers :
        /\ pc[w] = "returned" /\ result[w] = "ok"
        /\ op[w].kind \in {"withdraw", "transfer_to"}
        /\ balance_cents[op[w].self] = 0
        /\ lock_owner[op[w].self] = NoThread

(* C4: with threads calling deposit and withdraw concurrently, whenever all
   calls issued have returned each account's balance is its initial balance
   plus the deposits that succeeded minus the withdrawals that succeeded. *)
C4_NoLostUpdate ==
    Quiescent =>
        \A a \in Accounts : balance_cents[a] = initial[a] + depSum[a] - wdSum[a]

(* a deposit and a withdrawal on the same account have both succeeded *)
C4_Witness ==
    /\ Quiescent
    /\ \E a \in Accounts : depSum[a] > 0 /\ wdSum[a] > 0

(* C5: while a transfer has debited its source and not yet credited its
   target, no other thread is at a step that reads or writes the balance of
   the source or of the target. *)
C5_TransferAtomic ==
    \A w, u \in Workers :
        (w # u /\ MidTransfer(w)) =>
            ~Accessing(u, op[w].self) /\ ~Accessing(u, op[w].other)

(* a transfer is between its debit and its credit while another thread's
   call on one of its two accounts waits for the lock *)
C5_Witness ==
    \E w, u \in Workers :
        /\ w # u
        /\ MidTransfer(w)
        /\ Blocked(u)
        /\ Head(pending[u]) \in {op[w].self, op[w].other}

(* C6: a thread inside transfer_to that holds the lock of the account with
   the larger account number also holds the lock of the account with the
   smaller one, whichever of the two is the source. *)
C6_LockOrdering ==
    \A w \in Workers :
        op[w].kind = "transfer_to" /\ pc[w] \notin {"idle", "returned"} =>
            \A a, b \in {op[w].self, op[w].other} :
                (StrLess(account_number[a], account_number[b]) /\ HoldsLock(w, b))
                    => HoldsLock(w, a)

(* a transfer from the larger account number to the smaller one holds the
   target's lock and has yet to take the source's *)
C6_Witness ==
    \E w \in Workers :
        /\ op[w].kind = "transfer_to" /\ pc[w] = "acquire"
        /\ StrLess(account_number[op[w].other], account_number[op[w].self])
        /\ HoldsLock(w, op[w].other)
        /\ ~HoldsLock(w, op[w].self)

(* w's transfer has run its body and still holds both locks *)
TransferBodyDone(w) ==
    op[w].kind = "transfer_to" /\ pc[w] = "release" /\ Len(held[w]) = 2

(* C7: a transfer whose amount exceeds the source's balance at the funds
   check (both locks held) raises InsufficientFundsError with both balances
   as they were; otherwise it succeeds, the source down by the amount and
   the target up by the amount. *)
C7_TransferOutcome ==
    \A w \in Workers :
        TransferBodyDone(w) =>
            IF op[w].amount > snap[w].src
            THEN /\ result[w] = "InsufficientFundsError"
                 /\ balance_cents[op[w].self] = snap[w].src
                 /\ balance_cents[op[w].other] = snap[w].tgt
            ELSE /\ result[w] = "ok"
                 /\ balance_cents[op[w].self] = snap[w].src - op[w].amount
                 /\ balance_cents[op[w].other] = snap[w].tgt + op[w].amount

(* a transfer of the source's whole balance has succeeded *)
C7_Witness ==
    \E w \in Workers :
        /\ TransferBodyDone(w)
        /\ op[w].amount = snap[w].src
        /\ result[w] = "ok"

(* w's withdraw has run its body and still holds the lock *)
WithdrawBodyDone(w) == op[w].kind = "withdraw" /\ pc[w] = "release"

(* C8: withdraw with a positive amount raises InsufficientFundsError and
   leaves the balance as it was exactly when the amount exceeds the balance
   at the check; otherwise, amount = balance included, it succeeds and the
   balance is down by exactly the amount. *)
C8_WithdrawOutcome ==
    \A w \in Workers :
        WithdrawBodyDone(w) =>
            IF op[w].amount > snap[w].src
            THEN /\ result[w] = "InsufficientFundsError"
                 /\ balance_cents[op[w].self] = snap[w].src
            ELSE /\ result[w] = "ok"
                 /\ balance_cents[op[w].self] = snap[w].src - op[w].amount

(* a withdrawal of the whole balance has succeeded and left 0 *)
C8_Witness ==
    \E w \in Workers :
        /\ WithdrawBodyDone(w)
        /\ op[w].amount = snap[w].src
        /\ result[w] = "ok"
        /\ balance_cents[op[w].self] = 0

(* C9: a thread whose call has returned, normally or with ValueError or
   InsufficientFundsError, owns no account lock. *)
C9_NoLockLeak ==
    \A w \in Workers :
        pc[w] \in {"idle", "returned"} =>
            \A a \in Accounts : ~HoldsLock(w, a)

(* a transfer refused for insufficient funds has returned *)
C9_Witness ==
    \E w \in Workers :
        /\ pc[w] = "returned"
        /\ op[w].kind = "transfer_to"
        /\ result[w] = "InsufficientFundsError"

(* C10: with every thread repeating deposit(d); withdraw(d) on one account,
   no withdraw is ever refused, and once all threads have finished the
   balance is the initial balance. *)
C10_NoOp ==
    /\ \A w \in Workers : result[w] # "InsufficientFundsError"
    /\ AllFinished => balance_cents[AccountA] = initial[AccountA]

(* all threads have run every round: every deposit and every withdrawal of
   the run has succeeded *)
C10_Witness ==
    /\ AllFinished
    /\ depSum[AccountA] = NumWorkers * NumRounds * fixedAmount
    /\ wdSum[AccountA] = NumWorkers * NumRounds * fixedAmount

(* C11: with every thread running rounds of A.transfer_to(B, d) then
   B.transfer_to(A, d), the second skipped when the first is refused, all
   threads finish, and once they have the balance of A and the balance of B
   each equal their own initial value. *)
C11_PingPong ==
    /\ [](AllFinished => balance_cents = initial)
    /\ <>AllFinished

(* all threads have finished, and in one of them a first transfer was
   refused for insufficient funds: the round's second transfer was skipped *)
C11_Witness ==
    /\ \A w \in Workers : (pc[w] = "idle" /\ opsLeft[w] = 0) \/ pc[w] = "returned"
    /\ \E w \in Workers :
        /\ pc[w] = "returned"
        /\ opsLeft[w] = 2
        /\ result[w] = "InsufficientFundsError"

(* w's current call is a transfer whose target is None or the source *)
InvalidTargetCall(w) ==
    op[w].kind = "transfer_to" /\ op[w].other \in {None, op[w].self}

(* w's call was refused for a non-positive amount and nothing else *)
InvalidAmountCall(w) ==
    /\ pc[w] = "returned"
    /\ op[w].amount <= 0
    /\ op[w].kind \in {"deposit", "withdraw", "transfer_to"}
    /\ ~InvalidTargetCall(w)

(* w's step is a whole call: it was refused in validation *)
RefusedInValidation(w) == pc[w] = "idle" /\ pc'[w] = "returned"

(* C12 as stated: a transfer to the account itself or to None fails with an
   error kind of its own (InvalidOperation), different from the kind raised
   for a non-positive amount and from InsufficientFunds. *)
C12_Original ==
    \A w \in Workers :
        InvalidTargetCall(w) =>
            /\ pc[w] = "returned"
            /\ result[w] \notin {"ok", "InsufficientFundsError"}
            /\ \A u \in Workers : InvalidAmountCall(u) => result[u] # result[w]

(* C12 as amended: a transfer to the account itself or to None always fails
   with ValueError, the same kind a non-positive amount raises, for every
   balance and every amount; it enters no with-block, and the step that
   refuses it changes no balance and no lock. *)
C12_InvalidTarget ==
    /\ [](\A w \in Workers :
            InvalidTargetCall(w) =>
                pc[w] = "returned" /\ result[w] = "ValueError" /\ held[w] = <<>>)
    /\ [][\A w \in Workers :
            (RefusedInValidation(w) /\ InvalidTargetCall(w)') =>
                UNCHANGED <<balance_cents, lock_owner, lock_count>>]_vars

(* a self-transfer of a positive amount on an account with balance 0 has
   been refused *)
C12_Witness ==
    \E w \in Workers :
        /\ pc[w] = "returned"
        /\ op[w].kind = "transfer_to"
        /\ op[w].other = op[w].self
        /\ op[w].amount > 0
        /\ balance_cents[op[w].self] = 0
        /\ result[w] = "ValueError"

(* w's current call is a deposit, withdraw or transfer_to with amount <= 0 *)
NonPositiveCall(w) ==
    op[w].kind \in {"deposit", "withdraw", "transfer_to"} /\ op[w].amount <= 0

(* w's step is the store that completes a deposit *)
DepositCompletes(w) ==
    op[w].kind = "deposit" /\ pc[w] = "d_write" /\ pc'[w] = "release"

(* C13: deposit, withdraw and transfer_to with amount <= 0 fail with
   ValueError (the code's InvalidArgument) without entering a with-block,
   and the refusing step changes no balance and no lock; deposit with
   amount > 0 never fails, and the store that completes it leaves the
   balance exactly amount above what it was. *)
C13_AmountValidation ==
    /\ [](\A w \in Workers :
            NonPositiveCall(w) =>
                pc[w] = "returned" /\ result[w] = "ValueError" /\ held[w] = <<>>)
    /\ [][\A w \in Workers :
            (RefusedInValidation(w) /\ NonPositiveCall(w)') =>
                UNCHANGED <<balance_cents, lock_owner, lock_count>>]_vars
    /\ [](\A w \in Workers :
            (op[w].kind = "deposit" /\ op[w].amount > 0) =>
                result[w] \in {"pending", "ok"})
    /\ [][\A w \in Workers :
            DepositCompletes(w) =>
                /\ result'[w] = "ok"
                /\ balance_cents' =
                     [balance_cents EXCEPT ![op[w].self] = @ + op[w].amount]]_vars

(* a deposit of a positive amount has succeeded while another thread's call
   with amount 0 has been refused *)
C13_Witness ==
    \E w, u \in Workers :
        /\ pc[w] = "returned" /\ op[w].kind = "deposit" /\ result[w] = "ok"
        /\ op[w].amount > 0
        /\ InvalidAmountCall(u)
        /\ result[u] = "ValueError"

(* w's step ends an iteration of its loop *)
IterationEnds(w) == pc[w] = "returned" /\ pc'[w] = "idle"

(* C14: a UserTask runs exactly its configured number of iterations
   whatever its calls end with: every iteration, failed or not, uses up one
   iteration and no more; a thread with iterations left is never stopped;
   every configured iteration has issued its call once the threads have
   finished (when a secondary account is bound, so that every action
   calls); and under fair scheduling all threads finish, so that the
   simulator's joins return. *)
C14_WorkerTermination ==
    /\ [][\A w \in Workers : IterationEnds(w) => opsLeft'[w] = opsLeft[w] - 1]_vars
    /\ []((AllFinished /\ secondary_account # None) => calls = MaxCalls)
    /\ <>AllFinished

(* every configured iteration was run although each of its calls failed: the
   accounts started empty and nothing was ever deposited, so every withdrawal
   and transfer raised *)
C14_Witness ==
    /\ AllFinished /\ calls = MaxCalls /\ secondary_account # None
    /\ \A a \in Accounts : initial[a] = 0 /\ depSum[a] = 0 /\ balance_cents[a] = 0

(* w's transfer_to has chosen its lock order and entered no lock yet *)
TransferStarts(w) ==
    op[w].kind = "transfer_to" /\ pc[w] = "acquire" /\ held[w] = <<>>

(* C15: when two distinct accounts carry equal account numbers, transfer_to
   enters the target's lock first and the source's second, so that transfers
   in opposite directions between the two enter the locks in opposite
   orders; and threads that wait for each other's locks wait forever: no
   step ends such a wait. *)
C15_EqualIdsDeadlock ==
    /\ [](\A w \in Workers :
            TransferStarts(w) => pending[w] = <<op[w].other, op[w].self>>)
    /\ [](\A w, u \in Workers :
            (/\ TransferStarts(w) /\ TransferStarts(u)
             /\ op[w].self = op[u].other /\ op[w].other = op[u].self)
                => pending[w] # pending[u])
    /\ [][WaitCycle => (WaitCycle' /\ \A w \in Workers : Blocked(w) => pc'[w] = pc[w])]_vars

(* two threads transferring in opposite directions between accounts with
   equal account numbers, each owning one lock and waiting for the other's *)
C15_Witness ==
    \E w, u \in Workers :
        /\ w # u
        /\ op[w].kind = "transfer_to" /\ op[u].kind = "transfer_to"
        /\ op[w].self = op[u].other /\ op[w].other = op[u].self
        /\ op[w].self # op[w].other
        /\ account_number[op[w].self] = account_number[op[w].other]
        /\ HoldsLock(w, op[w].other) /\ HoldsLock(u, op[u].other)
        /\ Blocked(w) /\ Blocked(u)
        /\ WaitCycle

(* the characters of s are all whitespace (none, when s is empty) *)
Blank(s) == \A i \in 1..Len(s) : s[i] \in Whitespace

(* C16: a BankAccount(...) call raises ValueError exactly when the account
   number is empty or all whitespace or the initial balance is negative, and
   then no account comes into being and no existing account changes;
   otherwise it creates one account, with the given account number, the
   given initial balance (zero included) and a lock nobody owns, and changes
   no existing account. *)
C16_Construction ==
    /\ [](ctor.result # "none" =>
            (ctor.result = "ValueError"
                <=> (Blank(ctor.account_number) \/ ctor.initial_balance_cents < 0)))
    /\ [][ctor'.result = "ValueError" =>
            UNCHANGED <<account_number, balance_cents, lock_owner, lock_count>>]_vars
    /\ [][ctor'.result \notin {"ValueError", "none"} =>
            LET a == ctor'.result IN
                /\ a \notin Accounts
                /\ DOMAIN balance_cents' = Accounts \cup {a}
                /\ account_number'[a] = ctor'.account_number
                /\ balance_cents'[a] = ctor'.initial_balance_cents
                /\ lock_owner'[a] = NoThread /\ lock_count'[a] = 0
                /\ \A b \in Accounts :
                      /\ account_number'[b] = account_number[b]
                      /\ balance_cents'[b] = balance_cents[b]
                      /\ lock_owner'[b] = lock_owner[b]
                      /\ lock_count'[b] = lock_count[b]]_vars

(* one account constructed with balance zero and a number with whitespace
   around it, and then a construction refused for a whitespace-only number,
   the first account left as it was *)
C16_Witness ==
    /\ ctor.result = "ValueError"
    /\ ctor.account_number # <<>> /\ Blank(ctor.account_number)
    /\ ctor.initial_balance_cents >= 0
    /\ \E a \in Accounts :
          /\ balance_cents[a] = 0
          /\ Len(account_number[a]) > 1
          /\ account_number[a][1] \in Whitespace
    /\ Cardinality(Accounts) = 1

(* w is inside transfer_to *)
InTransfer(w) == op[w].kind = "transfer_to" /\ pc[w] \notin {"idle", "returned"}

(* w owns the locks of both accounts of its transfer *)
HoldsBoth(w) == HoldsLock(w, op[w].self) /\ HoldsLock(w, op[w].other)

(* the step is taken by w *)
Steps(w) == pc'[w] # pc[w]

(* C17: a thread runs the funds check of its transfer_to, and changes a
   balance in it, only while it owns the locks of both accounts; it changes
   a balance only after its check has run and passed; the debit of the
   source comes before the credit of the target; and it gives up a lock
   only when the call's outcome is settled, that is after the credit or
   after the check has failed, never between check, debit and credit. *)
C17_TransferStepOrder ==
    /\ [][\A w \in Workers :
            (InTransfer(w) /\ Steps(w) /\ pc[w] = "check")
                => (HoldsBoth(w) /\ HoldsBoth(w)')]_vars
    /\ [][\A w \in Workers :
            (InTransfer(w) /\ Steps(w) /\ balance_cents' # balance_cents)
                => /\ HoldsBoth(w) /\ HoldsBoth(w)'
                   /\ snap[w].src >= op[w].amount /\ result[w] = "pending"
                   /\ \/ /\ balance_cents'[op[w].self] < balance_cents[op[w].self]
                         /\ balance_cents[op[w].other] = snap[w].tgt
                      \/ /\ balance_cents'[op[w].other] > balance_cents[op[w].other]
                         /\ balance_cents[op[w].self] = snap[w].src - op[w].amount]_vars
    /\ [][\A w \in Workers, a \in Accounts :
            (InTransfer(w) /\ HoldsLock(w, a) /\ ~HoldsLock(w, a)')
                => /\ result[w] \in {"InsufficientFundsError", "ok"}
                   /\ (HoldsBoth(w) /\ result[w] = "InsufficientFundsError")
                        => /\ balance_cents[op[w].self] = snap[w].src
                           /\ balance_cents[op[w].other] = snap[w].tgt
                   /\ (HoldsBoth(w) /\ result[w] = "ok")
                        => /\ balance_cents[op[w].self] = snap[w].src - op[w].amount
                           /\ balance_cents[op[w].other] = snap[w].tgt + op[w].amount]_vars

(* a transfer that has passed its check and debited its source is about to
   credit its target, both locks still its own, while another thread waits
   for one of them *)
C17_Witness ==
    \E w, u \in Workers :
        /\ op[w].kind = "transfer_to" /\ pc[w] = "d_read"
        /\ HoldsLock(w, op[w].self) /\ HoldsLock(w, op[w].other)
        /\ balance_cents[op[w].self] = snap[w].src - op[w].amount
        /\ u # w /\ Blocked(u)

(* w and u have each debited, or tried to, the same account, with amounts
   each of which the account's balance covered and which it did not cover
   together; both calls have returned *)
CompetingDebits(w, u) ==
    /\ w # u
    /\ pc[w] = "returned" /\ pc[u] = "returned"
    /\ op[w].kind \in {"withdraw", "transfer_to"}
    /\ op[u].kind \in {"withdraw", "transfer_to"}
    /\ op[w].self = op[u].self
    /\ op[w].amount <= initial[op[w].self]
    /\ op[u].amount <= initial[op[w].self]
    /\ op[w].amount + op[u].amount > initial[op[w].self]

(* C18: two threads debit the same account, by withdraw or as the source of
   a transfer_to, with amounts a1 and a2 where a1 <= balance, a2 <= balance
   and a1 + a2 > balance, and nothing credits the account: in every
   interleaving exactly one of the two calls succeeds and the other raises
   InsufficientFundsError, the account ends with its balance less the
   amount of the call that succeeded, and no balance is ever negative. *)
C18_AtomicCheckAndDebit ==
    /\ \A a \in Accounts : balance_cents[a] >= 0
    /\ \A w, u \in Workers :
          CompetingDebits(w, u) =>
              /\ {result[w], result[u]} = {"ok", "InsufficientFundsError"}
              /\ \E v \in {w, u} :
                    /\ result[v] = "ok"
                    /\ balance_cents[op[v].self] = initial[op[v].self] - op[v].amount

(* a withdrawal and a transfer competed for the balance of their common
   source: one succeeded, the other was refused *)
C18_Witness ==
    \E w, u \in Workers :
        /\ CompetingDebits(w, u)
        /\ op[w].kind = "withdraw" /\ op[u].kind = "transfer_to"
        /\ result[w] = "InsufficientFundsError" /\ result[u] = "ok"

(* w waits for a lock that u owns *)
WaitsFor(w, u) == Blocked(w) /\ lock_owner[Head(pending[w])] = u

(* the wait-for graph between the threads has a cycle: a set of threads
   each of which waits for a thread of the set *)
WaitForCycle ==
    \E S \in SUBSET Threads :
        /\ S # {}
        /\ \A w \in S : \E u \in S : WaitsFor(w, u)

(* every thread of the run has finished its loop *)
ThreadsFinished == \A w \in Threads : pc[w] = "idle" /\ opsLeft[w] = 0

(* C19: with three accounts of pairwise distinct account numbers and threads
   transferring A to B, B to C and C to A, mixed with deposits, withdrawals
   and balance reads, no reachable state has a cycle in the wait-for graph
   between the threads, and in every reachable state some thread can take
   a step unless all of them have finished, so that no deadlock is reached. *)
C19_CycleDeadlockFree ==
    /\ \A a, b \in Accounts : a # b => account_number[a] # account_number[b]
    /\ ~WaitForCycle
    /\ ThreadsFinished \/ ENABLED CycleNext

(* the three transfers of the cycle are in progress at once and wait in a
   chain: C to A waits for A's lock, which A to B owns, which waits for B's
   lock, which B to C owns *)
C19_Witness ==
    /\ Cardinality(Accounts) >= 3
    /\ \E w, u, v \in Threads :
          /\ op[w].kind = "transfer_to" /\ op[u].kind = "transfer_to"
          /\ op[v].kind = "transfer_to"
          /\ op[w].other = op[u].self /\ op[u].other = op[v].self
          /\ op[v].other = op[w].self
          /\ WaitsFor(v, w) /\ WaitsFor(w, u)
          /\ pc[u] \notin {"idle", "returned"} /\ ~Blocked(u)

(* the accounts w's current call is called on *)
OpAccounts(w) == {op[w].self, op[w].other} \ {None}

(* the locks w's current call holds or has still to enter *)
OpLocks(w) ==
    {held[w][i] : i \in 1..Len(held[w])} \cup {pending[w][i] : i \in 1..Len(pending[w])}

(* C20: a call enters, and so waits for, only the locks of the accounts it
   is called on, and a thread that waits waits for a thread whose call is on
   the account waited for.  Hence a thread that holds both locks of a
   transfer is never what a call on accounts disjoint from the transfer's
   waits for; such a call can take its next step, up to its return, unless
   a third thread's call shares an account with it; and a thread between
   calls can start and enter a deposit, a withdrawal or a transfer on
   accounts disjoint from the transfer's. *)
C20_NoGlobalSerialization ==
    /\ \A w \in Workers : OpLocks(w) \subseteq OpAccounts(w)
    /\ \A w, u \in Workers : WaitsFor(u, w) => Head(pending[u]) \in OpAccounts(w)
    /\ \A w, u \in Workers :
          (/\ u # w /\ InTransfer(w) /\ HoldsBoth(w)
           /\ OpAccounts(u) \cap OpAccounts(w) = {})
              => /\ ~WaitsFor(u, w)
                 /\ (/\ pc[u] # "idle"
                     /\ \A v \in Workers \ {u} : OpAccounts(u) \cap OpAccounts(v) = {})
                        => ENABLED PairWorker(u)
                 /\ CanCall(u) =>
                       \A c \in Accounts \ OpAccounts(w) :
                           /\ ENABLED deposit(u, c, MaxAmount)
                           /\ ENABLED withdraw(u, c, MaxAmount)
                           /\ ENABLED transfer_to(u, c, PairOf[c], MaxAmount)

(* two transfers on disjoint pairs of accounts each hold both their locks *)
C20_Witness ==
    \E w, u \in Workers :
        /\ u # w
        /\ InTransfer(w) /\ HoldsBoth(w)
        /\ InTransfer(u) /\ HoldsBoth(u)
        /\ OpAccounts(u) \cap OpAccounts(w) = {}

(* the accounts whose balance the step changes *)
Touched == {a \in Accounts : balance_cents'[a] # balance_cents[a]}

(* C21: a step of get_balance changes no balance; a step of deposit or of
   withdraw on an account changes no balance but that account's; a step of
   transfer_to changes no balance but the source's and the target's; the
   steps that start a call, refuse it or return from it change none; and no
   step changes an account number. *)
C21_Frame ==
    /\ [][\A w \in Threads :
            Steps(w) =>
                CASE op[w].kind \in {"deposit", "withdraw"} ->
                         Touched \subseteq {op[w].self}
                  [] op[w].kind = "transfer_to" ->
                         Touched \subseteq {op[w].self, op[w].other}
                  [] OTHER -> Touched = {}]_vars
    /\ [][account_number' = account_number]_vars

(* with three accounts: a transfer has committed, its source debited and its
   target credited, the third account as it was constructed; and a deposit
   to that third account is at its store *)
C21_Witness ==
    \E w, u \in Threads :
        /\ Cardinality(Accounts) >= 3
        /\ op[w].kind = "transfer_to" /\ pc[w] = "returned" /\ result[w] = "ok"
        /\ balance_cents[op[w].self] = initial[op[w].self] - op[w].amount
        /\ balance_cents[op[w].other] = initial[op[w].other] + op[w].amount
        /\ op[u].kind = "deposit" /\ pc[u] = "d_write"
        /\ op[u].self \notin {op[w].self, op[w].other}
        /\ balance_cents[op[u].self] = initial[op[u].self]

(* C22: in a run of UserTasks mixing deposits, withdrawals and transfers in
   both directions on the two accounts, once every thread has finished the
   two balances add up to the initial total plus the amounts of the
   deposits that succeeded minus the amounts of the withdrawals that
   succeeded; transfers, committed or refused, add nothing. *)
C22_TotalAccounting ==
    AllFinished =>
        TotalBalance = InitialTotal + SumOver(depSum, Accounts) - SumOver(wdSum, Accounts)

(* a run that is over in which a deposit succeeded and a transfer moved
   money to the secondary account, which nothing else credits *)
C22_Witness ==
    /\ AllFinished
    /\ secondary_account = AccountB
    /\ depSum[AccountA] > 0
    /\ balance_cents[AccountB] > initial[AccountB]

(* total_balance() has returned, no call of a worker was in progress when
   it was called, and the workers issued n calls while it ran *)
TotalOverlapped(n) ==
    sim.pc = "returned" /\ sim.quiet /\ sim.calls1 = sim.calls0 + n

(* C23: total_balance() reads each balance under that account's lock and
   never holds the two locks together.  A call during which no transfer
   was in progress, such as one before the threads start or after they are
   joined, returns the conserved total; a call that one transfer overlaps
   returns the conserved total or a value that is off by what one transfer
   moves at most. *)
C23_TotalNotSnapshot ==
    /\ []~(lock_owner[AccountA] = MainThread /\ lock_owner[AccountB] = MainThread)
    /\ [][(sim'.first # sim.first \/ sim'.sum # sim.sum)
            => (lock_owner[sim.account] = MainThread /\ lock_count[sim.account] = 1)]_vars
    /\ [](TotalOverlapped(0) => sim.sum = InitialTotal)
    /\ [](TotalOverlapped(1) =>
            /\ sim.sum - InitialTotal <= MaxAmount
            /\ InitialTotal - sim.sum <= MaxAmount)

(* a transfer committed between the two reads of a total_balance() call
   that began with no call in progress: the value returned is not the
   conserved total, although the balances add up to it *)
C23_Witness ==
    /\ TotalOverlapped(1)
    /\ sim.sum # InitialTotal
    /\ TotalBalance = InitialTotal
    /\ Quiescent

(* the locks w owns *)
LocksOf(w) == {a \in Accounts : lock_owner[a] = w}

(* the locks w's current call has entered *)
HeldSet(w) == {held[w][i] : i \in 1..Len(held[w])}

(* C24: no call enters a lock its thread already owns: a lock's recursion
   level goes up only from zero.  In every reachable state each lock's
   recursion level is 0 or 1, and it is 1 exactly when a thread owns the
   lock; the locks a thread owns are those its current call has entered,
   so that no lock has two holders; a thread owns at most two locks, and it
   owns two only inside transfer_to. *)
C24_LockUsage ==
    /\ [][\A a \in Accounts :
            lock_count'[a] > lock_count[a]
                => (lock_count[a] = 0 /\ lock_owner[a] = NoThread)]_vars
    /\ [](\A a \in Accounts :
            /\ lock_count[a] \in {0, 1}
            /\ lock_count[a] = 1 <=> lock_owner[a] \in Threads)
    /\ [](\A w \in Threads :
            /\ LocksOf(w) = HeldSet(w)
            /\ Cardinality(LocksOf(w)) = Len(held[w])
            /\ Cardinality(LocksOf(w)) <= 2
            /\ Cardinality(LocksOf(w)) = 2 => op[w].kind = "transfer_to")
    /\ [](\A w, u \in Threads : w # u => HeldSet(w) \cap HeldSet(u) = {})

(* with three accounts: one thread owns the two locks of its transfer while
   another owns the third account's lock, each at recursion level 1 *)
C24_Witness ==
    \E w, u \in Threads :
        /\ w # u
        /\ Cardinality(LocksOf(w)) = 2 /\ op[w].kind = "transfer_to"
        /\ Cardinality(LocksOf(u)) = 1
        /\ \A a \in Accounts : lock_count[a] = 1

====
